---------------------------- MODULE Spec2Model ----------------------------
(***************************************************************************)
(* Model of src-tauri/src/commands/link_checker.rs of PicNexus:            *)
(*   classify_error, is_baidu_proxy_link, check_image_link,                *)
(*   cleanup_old_temp_files and download_image_from_url.                   *)
(*                                                                         *)
(* Three specifications share the variables:                               *)
(*   Spec          concurrent download_image_from_url calls on a shared    *)
(*                 temp directory, with the wall clock advancing;          *)
(*   SpecCheck     check_image_link on every link and transport outcome;   *)
(*   SpecClassify  classify_error as a pure function on every input.       *)
(*                                                                         *)
(* String literals of the source are Chinese; the module names them by     *)
(* ASCII renderings (the original text is quoted beside each).             *)
(***************************************************************************)
EXTENDS Integers, Sequences, FiniteSets, TLC

(***************************************************************************)
(* Bounds of the model.                                                    *)
(***************************************************************************)
\* Clock ticks per second: the wall clock is finer than one second.
TicksPerSec == 2
\* The clock takes the values 0..MaxTicks and the same one retention window later.
MaxTicks == 2
\* Longest link, in tokens.
MaxLinkLen == 3

(***************************************************************************)
(* Program constants.                                                      *)
(***************************************************************************)
MAX_DOWNLOAD_SIZE == 50 * 1024 * 1024
TEMP_FILE_PREFIX == "weibo_reupload_"
TEMP_FILE_MAX_AGE_SECS == 3600

\* Option<T>: None or Some(v)
None == <<"None">>
Some(v) == <<"Some", v>>
IsSome(o) == o # None
Unwrap(o) == o[2]

(***************************************************************************)
(* u64 values as four 16-bit limbs, most significant first (a u64 does not *)
(* fit a 32-bit integer).  usize is 32 or 64 bits wide.                    *)
(***************************************************************************)
Limb == 2 ^ 16
ToU64(n) == <<0, 0, n \div Limb, n % Limb>>
U64Max == <<Limb - 1, Limb - 1, Limb - 1, Limb - 1>>
RECURSIVE LimbsGt(_, _, _)
LimbsGt(a, b, i) ==
    IF i > 4 THEN FALSE
    ELSE IF a[i] # b[i] THEN a[i] > b[i]
    ELSE LimbsGt(a, b, i + 1)
\* a > b on u64 (and on usize values widened to u64)
U64Gt(a, b) == LimbsGt(a, b, 1)
\* `x as usize` for a u64 x: the low `bits` bits
AsUsize(x, bits) == IF bits = 64 THEN x ELSE <<0, 0, x[3], x[4]>>
UsizeBits == {32, 64}

(***************************************************************************)
(* The wall clock, in ticks.                                               *)
(***************************************************************************)
RetentionTicks == TEMP_FILE_MAX_AGE_SECS * TicksPerSec
ClockValues == (0 .. MaxTicks) \cup (RetentionTicks .. RetentionTicks + MaxTicks)
\* Duration::as_secs: whole seconds, the fraction dropped
AsSecs(ticks) == ticks \div TicksPerSec
\* chrono::Local::now().timestamp(): whole seconds since the epoch
Timestamp(t) == t \div TicksPerSec

(***************************************************************************)
(* The temp directory: a function from the names present to files.  A name *)
(* is <<leading text, stem, extension>>; a download's stem is a timestamp. *)
(***************************************************************************)
FutureTime == RetentionTicks + MaxTicks + TicksPerSec
\* mtime: metadata().modified(), None when it cannot be read; len: bytes held;
\* src: whose bytes ("ext": not a download's); locked: remove_file fails on it
File(mtime, len, src, locked) ==
    [mtime |-> mtime, len |-> len, src |-> src, locked |-> locked]
\* format!("{}{}.jpg", TEMP_FILE_PREFIX, timestamp)
TempFileName(ts) == <<TEMP_FILE_PREFIX, ts, ".jpg">>
\* file_name.starts_with(TEMP_FILE_PREFIX)
StartsWithPrefix(name) == name[1] = TEMP_FILE_PREFIX

StaleName == <<TEMP_FILE_PREFIX, -1, ".jpg">>
LockedName == <<TEMP_FILE_PREFIX, -2, ".jpg">>
NoMetaName == <<TEMP_FILE_PREFIX, -3, ".jpg">>
FutureName == <<TEMP_FILE_PREFIX, -4, ".jpg">>
OtherName == <<"other_", -5, ".tmp">>
\* The directory at start: files other programs and earlier runs left there.
InitialDir ==
    (StaleName :> File(Some(0), 1, "ext", FALSE)) @@
    (LockedName :> File(Some(0), 1, "ext", TRUE)) @@
    (NoMetaName :> File(None, 1, "ext", FALSE)) @@
    (FutureName :> File(Some(FutureTime), 1, "ext", FALSE)) @@
    (OtherName :> File(Some(0), 1, "ext", FALSE))

Remove(dir, name) == [n \in (DOMAIN dir) \ {name} |-> dir[n]]
Put(dir, name, f) == [n \in (DOMAIN dir) \cup {name} |-> IF n = name THEN f ELSE dir[n]]

(***************************************************************************)
(* classify_error                                                          *)
(***************************************************************************)
\* "图片已被删除或无权访问，建议从其他有效图床重新上传"
Suggest4xx == "image deleted or access denied; re-upload from another valid host"
\* "图床服务器暂时不可用，建议稍后重试"
Suggest5xx == "host temporarily unavailable; retry later"
\* "请求超时，可能是网络延迟或图床响应慢"
SuggestTimeout == "request timed out; network latency or slow host"
\* "网络连接失败，请检查网络或防火墙设置"
SuggestConnect == "connection failed; check network or firewall settings"
\* "未知错误"
SuggestUnknown == "unknown error"

\* a reqwest::Error, as far as the code looks at it: is_timeout(), is_connect()
ReqwestError == [is_timeout : BOOLEAN, is_connect : BOOLEAN]

\* classify_error with the 2xx test widened to every code below 400
classify_error_3xx_success(status_code, error) ==
    IF IsSome(status_code) /\ Unwrap(status_code) >= 400 /\ Unwrap(status_code) < 500
    THEN <<"http_4xx", Some(Suggest4xx)>>
    ELSE IF IsSome(status_code) /\ Unwrap(status_code) >= 500
    THEN <<"http_5xx", Some(Suggest5xx)>>
    ELSE IF IsSome(status_code) /\ Unwrap(status_code) >= 200 /\ Unwrap(status_code) < 400
    THEN <<"success", None>>
    ELSE IF IsSome(error) /\ Unwrap(error).is_timeout
    THEN <<"timeout", Some(SuggestTimeout)>>
    ELSE IF IsSome(error) /\ Unwrap(error).is_connect
    THEN <<"network", Some(SuggestConnect)>>
    ELSE <<"network", Some(SuggestUnknown)>>

\* classify_error with the 5xx test bounded above, as the 4xx test is
classify_error_5xx_bounded(status_code, error) ==
    IF IsSome(status_code) /\ Unwrap(status_code) >= 400 /\ Unwrap(status_code) < 500
    THEN <<"http_4xx", Some(Suggest4xx)>>
    ELSE IF IsSome(status_code) /\ Unwrap(status_code) >= 500 /\ Unwrap(status_code) < 600
    THEN <<"http_5xx", Some(Suggest5xx)>>
    ELSE IF IsSome(status_code) /\ Unwrap(status_code) >= 200 /\ Unwrap(status_code) < 300
    THEN <<"success", None>>
    ELSE IF IsSome(error) /\ Unwrap(error).is_timeout
    THEN <<"timeout", Some(SuggestTimeout)>>
    ELSE IF IsSome(error) /\ Unwrap(error).is_connect
    THEN <<"network", Some(SuggestConnect)>>
    ELSE <<"network", Some(SuggestUnknown)>>

\* classify_error with no suggestion in the default case
classify_error_no_default_suggestion(status_code, error) ==
    IF IsSome(status_code) /\ Unwrap(status_code) >= 400 /\ Unwrap(status_code) < 500
    THEN <<"http_4xx", Some(Suggest4xx)>>
    ELSE IF IsSome(status_code) /\ Unwrap(status_code) >= 500
    THEN <<"http_5xx", Some(Suggest5xx)>>
    ELSE IF IsSome(status_code) /\ Unwrap(status_code) >= 200 /\ Unwrap(status_code) < 300
    THEN <<"success", None>>
    ELSE IF IsSome(error) /\ Unwrap(error).is_timeout
    THEN <<"timeout", Some(SuggestTimeout)>>
    ELSE IF IsSome(error) /\ Unwrap(error).is_connect
    THEN <<"network", Some(SuggestConnect)>>
    ELSE <<"network", None>>

classify_error(status_code, error) ==
    IF IsSome(status_code) /\ Unwrap(status_code) >= 400 /\ Unwrap(status_code) < 500
    THEN <<"http_4xx", Some(Suggest4xx)>>
    ELSE IF IsSome(status_code) /\ Unwrap(status_code) >= 500
    THEN <<"http_5xx", Some(Suggest5xx)>>
    ELSE IF IsSome(status_code) /\ Unwrap(status_code) >= 200 /\ Unwrap(status_code) < 300
    THEN <<"success", None>>
    ELSE IF IsSome(error) /\ Unwrap(error).is_timeout
    THEN <<"timeout", Some(SuggestTimeout)>>
    ELSE IF IsSome(error) /\ Unwrap(error).is_connect
    THEN <<"network", Some(SuggestConnect)>>
    ELSE <<"network", Some(SuggestUnknown)>>

\* http::StatusCode::is_success
IsSuccess(code) == code >= 200 /\ code < 300

(***************************************************************************)
(* check_image_link                                                        *)
(***************************************************************************)
\* A link is a string, here a sequence of tokens: white space, other text, and
\* the host name is_baidu_proxy_link looks for.
Whitespace == {" ", "\t"}
LinkTokens == Whitespace \cup {"x", "image.baidu.com"}
RECURSIVE SeqsUpTo(_, _)
SeqsUpTo(S, n) ==
    IF n = 0 THEN {<<>>}
    ELSE LET shorter == SeqsUpTo(S, n - 1)
         IN shorter \cup {Append(q, t) : q \in {r \in shorter : Len(r) = n - 1}, t \in S}
Links == SeqsUpTo(LinkTokens, MaxLinkLen)

\* str::trim: leading and trailing white space removed
RECURSIVE TrimStart(_)
TrimStart(str) ==
    IF str # <<>> /\ Head(str) \in Whitespace THEN TrimStart(Tail(str)) ELSE str
RECURSIVE TrimEnd(_)
TrimEnd(str) ==
    IF str # <<>> /\ str[Len(str)] \in Whitespace
    THEN TrimEnd(SubSeq(str, 1, Len(str) - 1))
    ELSE str
Trim(str) == TrimEnd(TrimStart(str))

\* link.contains("image.baidu.com")
is_baidu_proxy_link(link) == \E i \in 1 .. Len(link) : link[i] = "image.baidu.com"

\* http::StatusCode holds 100..=999
StatusCodes == 100 .. 999
\* what send().await yields
Responses ==
    [ok : {TRUE}, status : StatusCodes] \cup [ok : {FALSE}, err : ReqwestError]
\* start_time.elapsed().as_millis(), up to the 10 s timeout
ElapsedMs == {0, 10000}

\* "链接为空"
MsgEmptyLink == "link is empty"

\* the request the call issues: none for an empty link, GET + Range for a Baidu
\* proxy link, HEAD otherwise
ProbeRequest(link) ==
    IF Trim(link) = <<>> THEN None
    ELSE IF is_baidu_proxy_link(link)
    THEN Some([method |-> "GET", range |-> Some("bytes=0-0"), timeout_secs |-> 10])
    ELSE Some([method |-> "HEAD", range |-> None, timeout_secs |-> 10])

\* The value the call returns, a Result<CheckLinkResult, String>; `response` and
\* `elapsed` are read only when a request was issued.
check_image_link(link, response, elapsed) ==
    IF Trim(link) = <<>>
    THEN [ok |-> TRUE,
          value |-> [link |-> link, is_valid |-> FALSE, status_code |-> None,
                     error |-> Some(<<MsgEmptyLink>>), error_type |-> "network",
                     suggestion |-> Some(MsgEmptyLink), response_time |-> None]]
    ELSE IF response.ok
    THEN LET is_valid == IsSuccess(response.status)
             cl == classify_error(Some(response.status), None)
         IN [ok |-> TRUE,
             value |-> [link |-> link, is_valid |-> is_valid,
                        status_code |-> Some(response.status),
                        error |-> IF ~is_valid THEN Some(<<"HTTP", response.status>>)
                                  ELSE None,
                        error_type |-> cl[1], suggestion |-> cl[2],
                        response_time |-> Some(elapsed)]]
    ELSE LET error_msg == IF response.err.is_timeout THEN <<"request timed out">>
                          ELSE IF response.err.is_connect THEN <<"connection failed">>
                          ELSE <<"err.to_string()">>
             cl == classify_error(None, Some(response.err))
         IN [ok |-> TRUE,
             value |-> [link |-> link, is_valid |-> FALSE, status_code |-> None,
                        error |-> Some(error_msg),
                        error_type |-> cl[1], suggestion |-> cl[2],
                        response_time |-> Some(elapsed)]]

VARIABLES
    usizeBits,  \* pointer width of the build
    clock,      \* wall clock, in ticks
    fs,         \* the temp directory
    dl,         \* per download_image_from_url call: its position and locals
    chk,        \* check_image_link: the request issued and the result returned
    cls         \* classify_error: the input and the output

vars == <<usizeBits, clock, fs, dl, chk, cls>>

(***************************************************************************)
(* cleanup_old_temp_files                                                  *)
(***************************************************************************)
\* IsExpired with >= for >: a file exactly TEMP_FILE_MAX_AGE_SECS old is deleted
IsExpiredInclusive(now, modified) ==
    modified <= now /\ AsSecs(now - modified) >= TEMP_FILE_MAX_AGE_SECS

\* now.duration_since(modified) is Ok, and age.as_secs() > TEMP_FILE_MAX_AGE_SECS
IsExpired(now, modified) ==
    modified <= now /\ AsSecs(now - modified) > TEMP_FILE_MAX_AGE_SECS

\* The entry a pass looks at next: read_dir's order, taken here as by stem.
NextEntry(todo) == CHOOSE n \in todo : \A m \in todo : n[2] <= m[2]

\* The checks of one entry, up to the decision to delete it.
ShouldDelete(dir, name, now) ==
    /\ StartsWithPrefix(name)
    /\ name \in DOMAIN dir              \* entry.metadata() is Ok
    /\ IsSome(dir[name].mtime)           \* metadata.modified() is Ok
    /\ IsExpired(now, Unwrap(dir[name].mtime))

(***************************************************************************)
(* download_image_from_url, one call c                                     *)
(***************************************************************************)
Calls == {"c1", "c2"}

\* Response::content_length() values a server can declare
ContentLengths ==
    { None,
      Some(ToU64(MAX_DOWNLOAD_SIZE)),
      Some(ToU64(MAX_DOWNLOAD_SIZE + 1)),
      Some(ToU64(2 * MAX_DOWNLOAD_SIZE + 1)),
      Some(<<0, 1, 0, 0>>),              \* 2^32
      Some(U64Max) }
\* bytes.len() of the body read
BodyLens == {MAX_DOWNLOAD_SIZE, MAX_DOWNLOAD_SIZE + 1, 2 * MAX_DOWNLOAD_SIZE + 1}
\* status codes a download's GET can answer with
DownloadStatuses == {200, 404}
\* bytes a failed write_all leaves in the file: any number short of all
PartialLens(len) == {0, len - 1}

StepOrder ==
    <<"cleanup", "get", "status", "content_length", "read", "actual_length", "write">>

NoResult == [returned |-> FALSE, ok |-> FALSE, path |-> None, err |-> ""]
Ok(path) == [returned |-> TRUE, ok |-> TRUE, path |-> Some(path), err |-> ""]
Err(kind) == [returned |-> TRUE, ok |-> FALSE, path |-> None, err |-> kind]

InitialCall ==
    [pc |-> "start", now |-> None, todo |-> {}, status |-> None,
     content_length |-> None, bytes |-> None, temp_path |-> None,
     result |-> NoResult, trace |-> <<>>]

\* the call's record after it has finished step `step`, standing at `pc`
Advance(r, step, pc) == [r EXCEPT !.pc = pc, !.trace = Append(@, step)]
\* `return Err(..)` / `?` out of step `step`
Fail(r, step, kind) ==
    [r EXCEPT !.pc = "returned", !.trace = Append(@, step), !.result = Err(kind)]

\* DlStart with the cleanup pass left out: the call goes straight to the GET
DlStartWithoutCleanup(c) ==
    /\ dl[c].pc = "start"
    /\ dl' = [dl EXCEPT ![c].pc = "get"]
    /\ UNCHANGED <<usizeBits, clock, fs, chk, cls>>

\* cleanup_old_temp_files: read_dir, then `now`
DlStart(c) ==
    /\ dl[c].pc = "start"
    /\ \/ dl' = [dl EXCEPT ![c] = [@ EXCEPT !.pc = "cleanup",
                                             !.now = Some(clock),
                                             !.todo = DOMAIN fs]]
       \/ \* read_dir fails: the pass returns at once
          dl' = [dl EXCEPT ![c] = Advance(@, "cleanup", "get")]
    /\ UNCHANGED <<usizeBits, clock, fs, chk, cls>>

\* one entry of the loop, up to remove_file
DlCleanupEntry(c) ==
    /\ dl[c].pc = "cleanup"
    /\ dl[c].todo # {}
    /\ LET n == NextEntry(dl[c].todo) IN
       IF ShouldDelete(fs, n, Unwrap(dl[c].now))
       THEN dl' = [dl EXCEPT ![c].pc = "remove"]
       ELSE dl' = [dl EXCEPT ![c].todo = @ \ {n}]
    /\ UNCHANGED <<usizeBits, clock, fs, chk, cls>>

\* std::fs::remove_file(&path); a failure is logged and the loop goes on
DlCleanupRemove(c) ==
    /\ dl[c].pc = "remove"
    /\ LET n == NextEntry(dl[c].todo) IN
       /\ fs' = IF n \in DOMAIN fs /\ ~fs[n].locked THEN Remove(fs, n) ELSE fs
       /\ dl' = [dl EXCEPT ![c] = [@ EXCEPT !.pc = "cleanup", !.todo = @ \ {n}]]
    /\ UNCHANGED <<usizeBits, clock, chk, cls>>

\* the loop is over: the pass returns
DlCleanupDone(c) ==
    /\ dl[c].pc = "cleanup"
    /\ dl[c].todo = {}
    /\ dl' = [dl EXCEPT ![c] = Advance([@ EXCEPT !.now = None], "cleanup", "get")]
    /\ UNCHANGED <<usizeBits, clock, fs, chk, cls>>

\* http_client.get(&url).timeout(30 s).send().await
DlGet(c) ==
    /\ dl[c].pc = "get"
    /\ \/ dl' = [dl EXCEPT ![c] = Fail(@, "get", "request")]
       \/ \E st \in DownloadStatuses, cl \in ContentLengths :
            dl' = [dl EXCEPT ![c] =
                     Advance([@ EXCEPT !.status = Some(st), !.content_length = cl],
                             "get", "status")]
    /\ UNCHANGED <<usizeBits, clock, fs, chk, cls>>

\* if !response.status().is_success() { return Err }
DlCheckStatus(c) ==
    /\ dl[c].pc = "status"
    /\ dl' = [dl EXCEPT ![c] =
                IF IsSuccess(Unwrap(@.status))
                THEN Advance(@, "status", "content_length")
                ELSE Fail(@, "status", "http")]
    /\ UNCHANGED <<usizeBits, clock, fs, chk, cls>>

\* content_length as usize > MAX_DOWNLOAD_SIZE
DeclaredTooLarge(content_length, bits) ==
    /\ IsSome(content_length)
    /\ U64Gt(AsUsize(Unwrap(content_length), bits), ToU64(MAX_DOWNLOAD_SIZE))

DlCheckContentLength(c) ==
    /\ dl[c].pc = "content_length"
    /\ dl' = [dl EXCEPT ![c] =
                IF DeclaredTooLarge(@.content_length, usizeBits)
                THEN Fail(@, "content_length", "declared_too_large")
                ELSE Advance(@, "content_length", "read")]
    /\ UNCHANGED <<usizeBits, clock, fs, chk, cls>>

\* response.bytes().await
DlReadBody(c) ==
    /\ dl[c].pc = "read"
    /\ \/ dl' = [dl EXCEPT ![c] = Fail(@, "read", "read")]
       \/ \E len \in BodyLens :
            dl' = [dl EXCEPT ![c] = Advance([@ EXCEPT !.bytes = Some(len)],
                                            "read", "actual_length")]
    /\ UNCHANGED <<usizeBits, clock, fs, chk, cls>>

\* ActualTooLarge with the declared length trusted: the body is never measured
ActualTooLargeUnchecked(len) == FALSE

\* bytes.len() > MAX_DOWNLOAD_SIZE
ActualTooLarge(len) == len > MAX_DOWNLOAD_SIZE

DlCheckActualLength(c) ==
    /\ dl[c].pc = "actual_length"
    /\ dl' = [dl EXCEPT ![c] =
                IF ActualTooLarge(Unwrap(@.bytes))
                THEN Fail(@, "actual_length", "actual_too_large")
                ELSE Advance(@, "actual_length", "write")]
    /\ UNCHANGED <<usizeBits, clock, fs, chk, cls>>

\* temp_path, then std::fs::write's first half: File::create (create or truncate)
DlCreateFile(c) ==
    /\ dl[c].pc = "write"
    /\ LET path == TempFileName(Timestamp(clock))
           r == [dl[c] EXCEPT !.temp_path = Some(path)]
       IN \/ /\ dl' = [dl EXCEPT ![c] = Advance(r, "write", "write_all")]
             /\ fs' = Put(fs, path, File(Some(clock), 0, c, FALSE))
          \/ \* the file cannot be created
             /\ dl' = [dl EXCEPT ![c] = Fail(r, "write", "write")]
             /\ fs' = fs
    /\ UNCHANGED <<usizeBits, clock, chk, cls>>

\* std::fs::write's second half: write_all, then Ok(path_str)
DlWriteAll(c) ==
    /\ dl[c].pc = "write_all"
    /\ LET path == Unwrap(dl[c].temp_path)
           Store(len) == IF path \in DOMAIN fs
                         THEN Put(fs, path, File(Some(clock), len, c, FALSE))
                         ELSE fs
       IN \/ /\ fs' = Store(Unwrap(dl[c].bytes))
             /\ dl' = [dl EXCEPT ![c] = [@ EXCEPT !.pc = "returned", !.result = Ok(path)]]
          \/ \* the write fails part-way (disk full, ...)
             \E k \in PartialLens(Unwrap(dl[c].bytes)) :
               /\ fs' = Store(k)
               /\ dl' = [dl EXCEPT ![c] = [@ EXCEPT !.pc = "returned", !.result = Err("write")]]
    /\ UNCHANGED <<usizeBits, clock, chk, cls>>

\* The wall clock moves on, by any amount between two steps, except that a
\* std::fs::write under way (the file created, write_all not yet over) ends less
\* than TEMP_FILE_MAX_AGE_SECS after the timestamp in its file's name.
ClockAdvance ==
    /\ \E t \in ClockValues :
         /\ t > clock
         /\ \A c \in Calls :
              dl[c].pc = "write_all" =>
                Timestamp(t) - Unwrap(dl[c].temp_path)[2] < TEMP_FILE_MAX_AGE_SECS
         /\ clock' = t
    /\ UNCHANGED <<usizeBits, fs, dl, chk, cls>>

NoCheck == [called |-> FALSE]
NoClassify == [called |-> FALSE]

Init ==
    /\ usizeBits \in UsizeBits
    /\ clock = 0
    /\ fs = InitialDir
    /\ dl = [c \in Calls |-> InitialCall]
    /\ chk = NoCheck
    /\ cls = NoClassify

Next ==
    \/ \E c \in Calls : DlStart(c)
    \/ \E c \in Calls : DlCleanupEntry(c)
    \/ \E c \in Calls : DlCleanupRemove(c)
    \/ \E c \in Calls : DlCleanupDone(c)
    \/ \E c \in Calls : DlGet(c)
    \/ \E c \in Calls : DlCheckStatus(c)
    \/ \E c \in Calls : DlCheckContentLength(c)
    \/ \E c \in Calls : DlReadBody(c)
    \/ \E c \in Calls : DlCheckActualLength(c)
    \/ \E c \in Calls : DlCreateFile(c)
    \/ \E c \in Calls : DlWriteAll(c)
    \/ ClockAdvance

Spec == Init /\ [][Next]_vars


(***************************************************************************)
(* check_image_link, called on any link with any transport outcome         *)
(***************************************************************************)
CheckImageLink ==
    /\ ~chk.called
    /\ \E link \in Links, response \in Responses, elapsed \in ElapsedMs :
         chk' = [called |-> TRUE,
                 request |-> ProbeRequest(link),
                 response |-> IF ProbeRequest(link) = None THEN None ELSE Some(response),
                 ret |-> check_image_link(link, response, elapsed)]
    /\ UNCHANGED <<usizeBits, clock, fs, dl, cls>>

\* the caller has taken the result; the command can be invoked again
CheckTaken ==
    /\ chk.called
    /\ chk' = NoCheck
    /\ UNCHANGED <<usizeBits, clock, fs, dl, cls>>

NextCheck == CheckImageLink \/ CheckTaken

SpecCheck == Init /\ [][NextCheck]_vars

(***************************************************************************)
(* classify_error, applied to any status code and any error                *)
(***************************************************************************)
U16 == 0 .. (2 ^ 16 - 1)
StatusInputs == {None} \cup {Some(code) : code \in U16}
ErrorInputs == {None} \cup {Some(e) : e \in ReqwestError}

ClassifyError ==
    /\ ~cls.called
    /\ \E status_code \in StatusInputs, error \in ErrorInputs :
         cls' = [called |-> TRUE, status_code |-> status_code, error |-> error,
                 out |-> classify_error(status_code, error)]
    /\ UNCHANGED <<usizeBits, clock, fs, dl, chk>>

\* the caller has taken the pair; the function can be applied again
ClassifyTaken ==
    /\ cls.called
    /\ cls' = NoClassify
    /\ UNCHANGED <<usizeBits, clock, fs, dl, chk>>

NextClassify == ClassifyError \/ ClassifyTaken

SpecClassify == Init /\ [][NextClassify]_vars

(***************************************************************************)
(* Properties                                                              *)
(***************************************************************************)
IsPrefix(p, q) == Len(p) <= Len(q) /\ SubSeq(q, 1, Len(p)) = p
Executed(c, step) == \E i \in 1 .. Len(dl[c].trace) : dl[c].trace[i] = step
Returned(c) == dl[c].result.returned
ReturnedOk(c) == Returned(c) /\ dl[c].result.ok
ReturnedErr(c, kind) == Returned(c) /\ ~dl[c].result.ok /\ dl[c].result.err = kind

\* C1: no two download_image_from_url calls use the same temp-file path, and the
\* file at a returned path holds exactly the bytes of the call that returned it.
C1_DistinctPaths ==
    /\ \A c1, c2 \in Calls :
         (c1 # c2 /\ IsSome(dl[c1].temp_path) /\ IsSome(dl[c2].temp_path))
             => dl[c1].temp_path # dl[c2].temp_path
    /\ \A c \in Calls :
         (ReturnedOk(c) /\ Unwrap(dl[c].result.path) \in DOMAIN fs)
             => /\ fs[Unwrap(dl[c].result.path)].src = c
                /\ fs[Unwrap(dl[c].result.path)].len = Unwrap(dl[c].bytes)

\* C2: when a call returns an error out of the write step, it has left no file
\* at its temp path: no partial file, and no truncated earlier file.
C2_NoFileAfterFailedWrite ==
    \A c \in Calls :
        (Returned(c) /\ ~dl[c].result.ok /\ IsSome(dl[c].temp_path))
            => \/ Unwrap(dl[c].temp_path) \notin DOMAIN fs
               \/ fs[Unwrap(dl[c].temp_path)].src # c

\* C3: every file a download wrote holds at most MAX_DOWNLOAD_SIZE bytes; a call
\* whose body is longer fails at the actual-length check, whatever Content-Length
\* said, and never reaches the write step.
C3_WrittenFilesWithinLimit ==
    /\ \A n \in DOMAIN fs : fs[n].src \in Calls => fs[n].len <= MAX_DOWNLOAD_SIZE
    /\ \A c \in Calls :
         (IsSome(dl[c].bytes) /\ Unwrap(dl[c].bytes) > MAX_DOWNLOAD_SIZE)
             => /\ ~Executed(c, "write")
                /\ dl[c].temp_path = None
                /\ dl[c].pc \in {"actual_length", "returned"}
                /\ Returned(c) => ReturnedErr(c, "actual_too_large")

\* C3's case: bodies over the limit were read and refused, one with no
\* Content-Length and one with a Content-Length within the limit.
C3_Witness ==
    \E c1, c2 \in Calls :
        /\ ReturnedErr(c1, "actual_too_large") /\ dl[c1].content_length = None
        /\ ReturnedErr(c2, "actual_too_large")
        /\ dl[c2].content_length = Some(ToU64(MAX_DOWNLOAD_SIZE))
        /\ Unwrap(dl[c2].bytes) = 2 * MAX_DOWNLOAD_SIZE + 1

\* C4: every result of check_image_link has is_valid = (error_type = "success").
C4_ValidIffSuccess ==
    chk.called =>
        (chk.ret.value.is_valid <=> (chk.ret.value.error_type = "success"))

\* C4's case: a 206 answer to the probe, valid and classified success.
C4_Witness ==
    /\ chk.called
    /\ chk.ret.value.status_code = Some(206)
    /\ chk.ret.value.is_valid
    /\ chk.ret.value.error_type = "success"

ErrorTypes == {"success", "http_4xx", "http_5xx", "timeout", "network"}

\* C5: check_image_link always returns Ok with a populated result: error_type is
\* one of the five categories, and a suggestion is present unless it is success.
C5_AlwaysPopulatedResult ==
    chk.called =>
        /\ chk.ret.ok
        /\ chk.ret.value.error_type \in ErrorTypes
        /\ (chk.ret.value.error_type # "success") => IsSome(chk.ret.value.suggestion)

\* C5's case: a transport error that is neither a timeout nor a connection
\* failure (a malformed link fails so), returned as a network result.
C5_Witness ==
    /\ chk.called
    /\ IsSome(chk.response)
    /\ ~Unwrap(chk.response).ok
    /\ ~Unwrap(chk.response).err.is_timeout
    /\ ~Unwrap(chk.response).err.is_connect
    /\ chk.ret.ok
    /\ chk.ret.value.error_type = "network"
    /\ chk.ret.value.suggestion = Some(SuggestUnknown)

\* C6: a 2xx response that declares a Content-Length over MAX_DOWNLOAD_SIZE fails
\* with the declared-size error and its body is never read, on 32-bit and 64-bit
\* builds alike.
C6_DeclaredOversizeNeverRead ==
    \A c \in Calls :
        ( /\ IsSome(dl[c].status) /\ IsSuccess(Unwrap(dl[c].status))
          /\ IsSome(dl[c].content_length)
          /\ U64Gt(Unwrap(dl[c].content_length), ToU64(MAX_DOWNLOAD_SIZE)) )
            => /\ ~Executed(c, "read")
               /\ dl[c].pc \in {"status", "content_length", "returned"}
               /\ Returned(c) => ReturnedErr(c, "declared_too_large")

PcIndex(pc) ==
    CASE pc \in {"start", "cleanup", "remove"} -> 0
      [] pc = "get" -> 1
      [] pc = "status" -> 2
      [] pc = "content_length" -> 3
      [] pc = "read" -> 4
      [] pc = "actual_length" -> 5
      [] pc = "write" -> 6
      [] pc = "write_all" -> 7
FailStep(kind) ==
    CASE kind = "request" -> 2
      [] kind = "http" -> 3
      [] kind = "declared_too_large" -> 4
      [] kind = "read" -> 5
      [] kind = "actual_too_large" -> 6
      [] kind = "write" -> 7

\* C7: within one call the steps run in the order cleanup, get, status,
\* content_length, read, actual_length, write; a call that fails at a step has
\* run that step and none after it; nothing is requested before the cleanup pass
\* is over, and a file is written only after all seven steps.
C7_StepsInOrder ==
    \A c \in Calls :
        /\ IsPrefix(dl[c].trace, StepOrder)
        /\ ~Returned(c) => Len(dl[c].trace) = PcIndex(dl[c].pc)
        /\ ReturnedOk(c) => dl[c].trace = StepOrder
        /\ (Returned(c) /\ ~dl[c].result.ok)
               => Len(dl[c].trace) = FailStep(dl[c].result.err)
        /\ ~Executed(c, "cleanup") => dl[c].status = None
        /\ ~Executed(c, "read") => dl[c].bytes = None
        /\ \A n \in DOMAIN fs : fs[n].src = c => dl[c].trace = StepOrder

\* C7's case: one call ran all seven steps and returned a path, another failed
\* at the Content-Length check after its cleanup pass.
C7_Witness ==
    \E c1, c2 \in Calls :
        /\ ReturnedOk(c1)
        /\ ReturnedErr(c2, "declared_too_large")
        /\ dl[c2].trace = SubSeq(StepOrder, 1, 4)

C9_EveryExpiredDeleted ==
    [][ \A c \in Calls :
          (dl[c].pc = "cleanup" /\ dl'[c].pc = "get" /\ IsSome(dl[c].now)) =>
            \A n \in DOMAIN fs' :
                ( /\ StartsWithPrefix(n)
                  /\ IsSome(fs'[n].mtime)
                  /\ Unwrap(dl[c].now) - Unwrap(fs'[n].mtime) > RetentionTicks )
                    => fs'[n].locked
      ]_vars

\* C10: classify_error follows the decision table, first match first: 2xx is
\* success with no suggestion, 4xx is http_4xx and 5xx and above http_5xx with a
\* suggestion; with no status so classified, a timeout is timeout and a
\* connection failure network, with a suggestion; the rest is network with the
\* unknown-error suggestion.
C10_DecisionTable ==
    cls.called =>
        LET s == cls.status_code
            e == cls.error
            out == cls.out
        IN IF IsSome(s) /\ Unwrap(s) >= 200 /\ Unwrap(s) < 300
           THEN out = <<"success", None>>
           ELSE IF IsSome(s) /\ Unwrap(s) >= 400 /\ Unwrap(s) < 500
           THEN out[1] = "http_4xx" /\ IsSome(out[2])
           ELSE IF IsSome(s) /\ Unwrap(s) >= 500
           THEN out[1] = "http_5xx" /\ IsSome(out[2])
           ELSE IF IsSome(e) /\ Unwrap(e).is_timeout
           THEN out[1] = "timeout" /\ IsSome(out[2])
           ELSE IF IsSome(e) /\ Unwrap(e).is_connect
           THEN out[1] = "network" /\ IsSome(out[2]) /\ out[2] # Some(SuggestUnknown)
           ELSE out = <<"network", Some(SuggestUnknown)>>

\* C10's case: a 3xx status with no error falls to the last rule.
C10_Witness ==
    /\ cls.called
    /\ cls.status_code = Some(302)
    /\ cls.error = None
    /\ cls.out = <<"network", Some(SuggestUnknown)>>

=============================================================================
